---- MODULE Spec2Model ----
(***************************************************************************)
(* A model of filter_bam.py: the mate-pair generator read_bam, the         *)
(* classification and counting loop of evaluate, the FASTQ writers and     *)
(* rev_comp.                                                               *)
(*                                                                         *)
(* An alignment record is a TLA+ record with pysam's field names.  `flag`  *)
(* is the set of SAM flag bits that are set, so `flag & 2048` of the code  *)
(* is `2048 \in r.flag`.  Sequences and qualities are sequences of         *)
(* one-character strings.  The BAM stream is not fixed in advance: every   *)
(* bamiter.__next__() either draws the next record or finds the stream     *)
(* exhausted; `consumed` keeps the records drawn so far, in order.         *)
(***************************************************************************)
EXTENDS Integers, Sequences, FiniteSets, TLC

VARIABLES
    pc,               \* the line read_bam is at (or, once stopped, stopped at)
    status,           \* "running" | "returned" (evaluate returned) | "raised"
    exc,              \* the exception that ended the run, or "none"
    read1, read2,     \* read_bam's locals
    total_reads,      \* the global of line 10
    consumed,         \* records bamiter has produced so far
    yielded,          \* the pairs read_bam has yielded so far
    pair_count, keep_count, ambiguous_count,   \* evaluate's locals
    outcome,          \* the branch evaluate's last iteration took
    fq1, fq2,         \* what has been written to the two destinations
    logfile,          \* what read_bam has written to the run log
    mm, stype,        \* evaluate's arguments (-n and -t)
    norm,             \* a (seq, qual) under repeated rev_comp; None in a run
    output,           \* "files" (-o given: gzip files) | "pipes" (stdout, stderr)
    closed            \* how often each of the two destinations was closed

vars == <<pc, status, exc, read1, read2, total_reads, consumed, yielded, pair_count,
          keep_count, ambiguous_count, outcome, fq1, fq2, logfile, mm, stype,
          norm, output, closed>>

-----------------------------------------------------------------------------
(* Bounds and program constants *)

MaxReads == 4          \* records the stream may hold
MaxEdit == 2           \* largest edit distance a tag carries
MaxSeqLen == 2         \* longest read of the orientation checks

window == 500

None == [none |-> TRUE]

-----------------------------------------------------------------------------
(* pysam.AlignedSegment: the flag properties the code reads *)

is_unmapped(r) == 4 \in r.flag
is_reverse(r) == 16 \in r.flag
is_read1(r) == 64 \in r.flag
is_read2(r) == 128 \in r.flag
is_secondary(r) == 256 \in r.flag

\* get_tag(t) raises KeyError exactly when the record has no tag t
has_tag(r, t) == t \in DOMAIN r.tags

Abs(n) == IF n < 0 THEN -n ELSE n

\* int(mm) for the decimal digit strings argparse hands over
DigitValue(c) ==
    CASE c = "0" -> 0 [] c = "1" -> 1 [] c = "2" -> 2 [] c = "3" -> 3
      [] c = "4" -> 4 [] c = "5" -> 5 [] c = "6" -> 6 [] c = "7" -> 7
      [] c = "8" -> 8 [] c = "9" -> 9

RECURSIVE int(_)
int(s) == IF s = <<>> THEN 0
          ELSE 10 * int(SubSeq(s, 1, Len(s) - 1)) + DigitValue(s[Len(s)])

-----------------------------------------------------------------------------
(* rev_comp, lines 42-47 *)

code_GUncomplemented == [b \in {"A", "T", "C", "G", "N"} |->
            CASE b = "A" -> "T" [] b = "T" -> "A" [] b = "C" -> "G"
              [] b = "G" -> "G" [] b = "N" -> "N"]

code == [b \in {"A", "T", "C", "G", "N"} |->
            CASE b = "A" -> "T" [] b = "T" -> "A" [] b = "C" -> "G"
              [] b = "G" -> "C" [] b = "N" -> "N"]

Reversed(s) == [i \in 1..Len(s) |-> s[Len(s) - i + 1]]

\* code[seq[i]] raises KeyError on a base that is no key of code
rev_comp_raises(seq) == \E i \in 1..Len(seq) : seq[i] \notin DOMAIN code

rev_comp_NoReverse(seq, qual) ==
    <<[i \in 1..Len(seq) |-> code[seq[i]]], Reversed(qual)>>

rev_comp(seq, qual) ==
    <<Reversed([i \in 1..Len(seq) |-> code[seq[i]]]), Reversed(qual)>>

-----------------------------------------------------------------------------
(* print_fastq / print_fastq_to_pipes, lines 50-81: one mate's record *)

\* the oriented (cur_seq, cur_qual) of lines 70-73 and 76-79
oriented(r) == IF is_reverse(r) THEN rev_comp(r.seq, r.qual) ELSE <<r.seq, r.qual>>

write_raises(r) == is_reverse(r) /\ rev_comp_raises(r.seq)

\* "@{}\n{}\n+\n{}\n".format(query_name, cur_seq, cur_qual): four lines
fastq(r) == <<<<"@", r.query_name>>, oriented(r)[1], "+", oriented(r)[2]>>

print_fastq_Mate1Twice(r1, r2) == <<fastq(r1), fastq(r1)>>

\* what one call writes to outfile1 (stdout) and to outfile2 (stderr)
print_fastq(r1, r2) == <<fastq(r1), fastq(r2)>>

-----------------------------------------------------------------------------
(* The classifier: both_mapped, mated, perfect_alignments and the branch   *)
(* structure of evaluate                                                   *)

both_mapped(r1, r2) == ~(is_unmapped(r1) /\ is_unmapped(r2))

mated_Inclusive(r1, r2, st) ==
    IF st = "DNA" THEN (r1.rname = r2.rname) /\ (Abs(r1.isize) <= window)
    ELSE r1.rname = r2.rname

mated(r1, r2, st) ==
    IF st = "DNA" THEN (r1.rname = r2.rname) /\ (Abs(r1.isize) < window)
    ELSE r1.rname = r2.rname

single_match(r) == Len(r.cigar) = 1 /\ r.cigar[1][1] = 0

perfect_alignments_MissingTagIsZero(r1, r2, m) ==
    LET e(r) == IF has_tag(r, "NM") THEN r.tags["NM"]
                ELSE IF has_tag(r, "nM") THEN r.tags["nM"] ELSE 0
    IN  single_match(r1) /\ single_match(r2) /\ e(r1) <= int(m) /\ e(r2) <= int(m)

perfect_alignments_PerRecordTag(r1, r2, m) ==
    LET e(r) == IF has_tag(r, "NM") THEN r.tags["NM"] ELSE r.tags["nM"]
        tagged(r) == has_tag(r, "NM") \/ has_tag(r, "nM")
    IN  IF ~(tagged(r1) /\ tagged(r2)) THEN FALSE
        ELSE single_match(r1) /\ single_match(r2)
             /\ e(r1) <= int(m) /\ e(r2) <= int(m)

perfect_alignments_Strict(r1, r2, m) ==
    LET t == IF has_tag(r1, "NM") /\ has_tag(r2, "NM") THEN "NM"
             ELSE IF has_tag(r1, "nM") /\ has_tag(r2, "nM") THEN "nM"
             ELSE "none"
    IN  IF t = "none" THEN FALSE
        ELSE /\ single_match(r1)
             /\ single_match(r2)
             /\ r1.tags[t] < int(m)
             /\ r2.tags[t] < int(m)

perfect_alignments(r1, r2, m) ==
    LET t == IF has_tag(r1, "NM") /\ has_tag(r2, "NM") THEN "NM"
             ELSE IF has_tag(r1, "nM") /\ has_tag(r2, "nM") THEN "nM"
             ELSE "none"
    IN  IF t = "none" THEN FALSE
        ELSE /\ single_match(r1)
             /\ single_match(r2)
             /\ r1.tags[t] <= int(m)
             /\ r2.tags[t] <= int(m)

classify_NoUnmappedBranch(r1, r2, m, st) ==
    IF mated(r1, r2, st) /\ perfect_alignments(r1, r2, m)
    THEN "Discard"
    ELSE "KeepAmbiguous"

\* lines 123-139: which of the three branches an iteration takes
classify(r1, r2, m, st) ==
    IF ~(is_unmapped(r1) /\ is_unmapped(r2))
    THEN IF both_mapped(r1, r2) /\ mated(r1, r2, st) /\ perfect_alignments(r1, r2, m)
         THEN "Discard"
         ELSE "KeepAmbiguous"
    ELSE "KeepUnmapped"

tally_Always(count, branch, own) == count + 1

\* lines 136 and 139: a counter grows in its own branch only
tally(count, branch, own) == IF branch = own THEN count + 1 ELSE count

-----------------------------------------------------------------------------
(* The records a run may meet *)

Rec(name, flag, rname, isize, cigar, tags, seq, qual) ==
    [query_name |-> name, flag |-> flag, rname |-> rname, isize |-> isize,
     cigar |-> cigar, tags |-> tags, seq |-> seq, qual |-> qual]

NoTags == [t \in {} |-> 0]
Tag(t, v) == [x \in {t} |-> v]

\* an unmapped record as aligners write it: no reference, no CIGAR, no tags
Unmapped(name, role, seq, qual) ==
    Rec(name, {role, 4}, -1, 0, <<>>, NoTags, seq, qual)

\* a clean full-length forward or reverse alignment to reference 0
Clean(name, extra, isize, seq, qual) ==
    Rec(name, extra, 0, isize, <<<<0, Len(seq)>>>>, Tag("NM", 0), seq, qual)

StreamRecords ==
    UNION { { Unmapped(n, 64, <<"A", "C">>, <<"!", "#">>),
              Unmapped(n, 128, <<"G", "N">>, <<"#", "!">>),
              Clean(n, {64}, 100, <<"A", "A", "C">>, <<"!", "#", "$">>),
              Clean(n, {128, 16}, -100, <<"C", "G", "T">>, <<"$", "#", "!">>) }
            : n \in {"q1", "q2"} }
    \cup { Clean("q1", {64, 256}, 100, <<"A", "A", "C">>, <<"!", "#", "$">>),
           Clean("q1", {128, 256}, -100, <<"C", "G", "T">>, <<"$", "#", "!">>),
           Clean("q1", {64, 2048}, 100, <<"A", "A">>, <<"!", "#">>),
           Clean("q1", {128, 2048, 16}, -100, <<"C", "G">>, <<"$", "#">>),
           Rec("q1", {128, 16}, 1, -100, <<<<0, 1>>, <<4, 1>>>>, Tag("NM", 1),
               <<"A", "X">>, <<"!", "#">>) }

\* -n as argparse hands it over: a string of decimal digits
MmArgs == {<<"0">>, <<"1">>}
STypes == {"DNA", "RNA"}

-----------------------------------------------------------------------------
(* read_bam, lines 14-39 *)

Skip1Cond(r) == (is_secondary(r) /\ ~is_read1(r)) \/ 2048 \in r.flag
Skip2Cond(r) == (is_secondary(r) /\ ~is_read2(r)) \/ 2048 \in r.flag

\* control is at the test of line 22: from line 18/23, or from line 37 through 21
AtL22 == pc = "L22" \/ (pc = "L37" /\ ~is_secondary(read1))

evalVars == <<yielded, pair_count, keep_count, ambiguous_count, outcome, fq1, fq2>>

\* bamiter.__next__() hands over record r; total_reads += 1
Fetch_CountsTwice(r) ==
    /\ status = "running"
    /\ Len(consumed) < MaxReads
    /\ consumed' = Append(consumed, r)
    /\ total_reads' = total_reads + 2
    /\ UNCHANGED <<status, exc, logfile, mm, stype, norm, output, closed>>
    /\ UNCHANGED evalVars

Fetch(r) ==
    /\ status = "running"
    /\ Len(consumed) < MaxReads
    /\ consumed' = Append(consumed, r)
    /\ total_reads' = total_reads + 1
    /\ UNCHANGED <<status, exc, logfile, mm, stype, norm, output, closed>>
    /\ UNCHANGED evalVars

\* main has parsed its arguments and opened its files (lines 164-179) and
\* calls evaluate (line 180); read_bam has not pulled a record yet
StartOfRun ==
    /\ pc = "L18"
    /\ status = "running"
    /\ exc = "none"
    /\ read1 = None
    /\ read2 = None
    /\ total_reads = 0
    /\ consumed = <<>>
    /\ yielded = <<>>
    /\ pair_count = 0
    /\ keep_count = 0
    /\ ambiguous_count = 0
    /\ outcome = "none"
    /\ fq1 = <<>>
    /\ fq2 = <<>>
    /\ logfile = <<>>
    /\ mm \in MmArgs
    /\ stype \in STypes
    /\ norm = None
    /\ closed = <<0, 0>>

\* evaluate with fq1 and fq2 given
Init == StartOfRun /\ output = "files"

\* lines 18-19
FirstRead ==
    /\ pc = "L18"
    /\ \E r \in StreamRecords : Fetch(r) /\ read1' = r
    /\ pc' = "L22"
    /\ UNCHANGED read2

\* lines 22-24
SkipRead1 ==
    /\ AtL22
    /\ Skip1Cond(read1)
    /\ \E r \in StreamRecords : Fetch(r) /\ read1' = r
    /\ pc' = "L22"
    /\ UNCHANGED read2

\* lines 25-26
ReadMate2 ==
    /\ AtL22
    /\ ~Skip1Cond(read1)
    /\ \E r \in StreamRecords : Fetch(r) /\ read2' = r
    /\ pc' = "L27"
    /\ UNCHANGED read1

\* lines 27-29
SkipRead2 ==
    /\ pc = "L27"
    /\ Skip2Cond(read2)
    /\ \E r \in StreamRecords : Fetch(r) /\ read2' = r
    /\ pc' = "L27"
    /\ UNCHANGED read1

\* lines 30-32
PairMismatch_LogsAndGoesOn ==
    /\ status = "running"
    /\ pc = "L27"
    /\ ~Skip2Cond(read2)
    /\ read1.query_name # read2.query_name
    /\ logfile' = Append(logfile, <<"Read 1 query not equal to read 2 query",
                                     read1.query_name, read2.query_name>>)
    /\ pc' = "L35"
    /\ UNCHANGED <<status, exc, read1, read2, total_reads, consumed, mm, stype, norm, output, closed>>
    /\ UNCHANGED evalVars

PairMismatch ==
    /\ status = "running"
    /\ pc = "L27"
    /\ ~Skip2Cond(read2)
    /\ read1.query_name # read2.query_name
    /\ logfile' = Append(logfile, <<"Read 1 query not equal to read 2 query",
                                     read1.query_name, read2.query_name>>)
    /\ pc' = "L32"
    /\ status' = "raised"
    /\ exc' = "ValueError"
    /\ UNCHANGED <<read1, read2, total_reads, consumed, mm, stype, norm, output, closed>>
    /\ UNCHANGED evalVars

\* line 33 and the loop body of evaluate, lines 121-139
YieldPair ==
    /\ status = "running"
    /\ pc = "L27"
    /\ ~Skip2Cond(read2)
    /\ read1.query_name = read2.query_name
    /\ yielded' = Append(yielded, <<read1, read2>>)
    /\ pair_count' = pair_count + 1
    /\ outcome' = classify(read1, read2, mm, stype)
    /\ IF outcome' = "Discard"
       THEN /\ pc' = "L35"
            /\ UNCHANGED <<fq1, fq2, keep_count, ambiguous_count, status, exc>>
       ELSE IF write_raises(read1)
       THEN /\ pc' = "L73"
            /\ status' = "raised"
            /\ exc' = "KeyError"
            /\ UNCHANGED <<fq1, fq2, keep_count, ambiguous_count>>
       ELSE IF write_raises(read2)
       THEN /\ fq1' = Append(fq1, fastq(read1))      \* line 74 ran, 79 raised
            /\ pc' = "L79"
            /\ status' = "raised"
            /\ exc' = "KeyError"
            /\ UNCHANGED <<fq2, keep_count, ambiguous_count>>
       ELSE /\ fq1' = Append(fq1, print_fastq(read1, read2)[1])
            /\ fq2' = Append(fq2, print_fastq(read1, read2)[2])
            /\ keep_count' = tally(keep_count, outcome', "KeepUnmapped")
            /\ ambiguous_count' = tally(ambiguous_count, outcome', "KeepAmbiguous")
            /\ pc' = "L35"
            /\ UNCHANGED <<status, exc>>
    /\ UNCHANGED <<read1, read2, total_reads, consumed, logfile, mm, stype, norm, output, closed>>

\* lines 35-36
NextRead1 ==
    /\ pc = "L35"
    /\ \E r \in StreamRecords : Fetch(r) /\ read1' = r
    /\ pc' = "L37"
    /\ UNCHANGED read2

\* lines 37-39
SkipSecondary ==
    /\ pc = "L37"
    /\ is_secondary(read1)
    /\ \E r \in StreamRecords : Fetch(r) /\ read1' = r
    /\ pc' = "L37"
    /\ UNCHANGED read2

\* the line whose bamiter.__next__() runs next, "none" at lines 30-33
PullLine ==
    CASE pc = "L18" -> "L18"
      [] AtL22 /\ Skip1Cond(read1) -> "L23"
      [] AtL22 /\ ~Skip1Cond(read1) -> "L25"
      [] pc = "L27" /\ Skip2Cond(read2) -> "L28"
      [] pc = "L35" -> "L35"
      [] pc = "L37" /\ is_secondary(read1) -> "L38"
      [] OTHER -> "none"

Exhausted ==
    /\ status = "running"
    /\ PullLine # "none"
    /\ pc' = PullLine
    /\ UNCHANGED <<read1, read2, total_reads, consumed, logfile, mm, stype, norm, output, closed>>
    /\ UNCHANGED evalVars

\* bamiter.__next__() raises StopIteration inside the generator.  Before
\* Python 3.7 it leaves the generator as its normal end: the for loop of
\* line 121 ends and evaluate returns at line 140.
StopIterationEndsGenerator ==
    /\ Exhausted
    /\ status' = "returned"
    /\ exc' = "none"

\* From Python 3.7 on (PEP 479) the StopIteration raised inside the
\* generator reaches evaluate as RuntimeError.
StopIterationRuntimeError ==
    /\ Exhausted
    /\ status' = "raised"
    /\ exc' = "RuntimeError"

Next ==
    \/ FirstRead
    \/ SkipRead1
    \/ ReadMate2
    \/ SkipRead2
    \/ PairMismatch
    \/ YieldPair
    \/ NextRead1
    \/ SkipSecondary
    \/ StopIterationEndsGenerator
    \/ StopIterationRuntimeError

Spec == Init /\ [][Next]_vars

-----------------------------------------------------------------------------
(* main, lines 170-193: the run as a whole, in either output mode *)

Outputs == {"files", "pipes"}

InitMain == StartOfRun /\ output \in Outputs

mainFixed == <<read1, read2, total_reads, consumed, mm, stype, norm, output>>

\* lines 182-193 with pair_count > 0: the report is written and main returns 0
MainReports ==
    /\ status = "returned"
    /\ pair_count # 0
    /\ logfile' = logfile \o << <<"total reads", total_reads>>,
                                <<"kept", keep_count, "of", pair_count>>,
                                <<"kept ambiguous", ambiguous_count, "of", pair_count>> >>
    /\ pc' = "L193"
    /\ status' = "exiting"
    /\ UNCHANGED <<exc, closed>>
    /\ UNCHANGED mainFixed
    /\ UNCHANGED evalVars

\* line 186 with pair_count = 0: (keep_count + 0.0) / pair_count
MainDividesByZero ==
    /\ status = "returned"
    /\ pair_count = 0
    /\ pc' = "L186"
    /\ status' = "raised"
    /\ exc' = "ZeroDivisionError"
    /\ UNCHANGED <<logfile, closed>>
    /\ UNCHANGED mainFixed
    /\ UNCHANGED evalVars

\* main has no close() for fq1 and fq2.  When main returns, the interpreter
\* may finalize the two GzipFile objects (IOBase.__del__ calls close) ...
FinalizerCloses ==
    /\ status = "exiting"
    /\ output = "files"
    /\ closed' = <<closed[1] + 1, closed[2] + 1>>
    /\ status' = "exited"
    /\ UNCHANGED <<pc, exc, logfile>>
    /\ UNCHANGED mainFixed
    /\ UNCHANGED evalVars

\* ... or the process ends with the objects never finalized; in pipe mode
\* there is nothing to close
ProcessExits ==
    /\ status = "exiting"
    /\ status' = "exited"
    /\ UNCHANGED <<pc, exc, logfile, closed>>
    /\ UNCHANGED mainFixed
    /\ UNCHANGED evalVars

NextMain ==
    \/ Next
    \/ MainReports
    \/ MainDividesByZero
    \/ FinalizerCloses
    \/ ProcessExits

MainSpec == InitMain /\ [][NextMain]_vars

-----------------------------------------------------------------------------
(* One pair under the classifier: read_bam stands at line 30 with any two  *)
(* same-named primary records, and the loop body of evaluate runs on them. *)

TagSets ==
    { [t \in (IF nm >= 0 THEN {"NM"} ELSE {}) \cup (IF st >= 0 THEN {"nM"} ELSE {})
          |-> IF t = "NM" THEN nm ELSE st]
      : nm \in -1..MaxEdit, st \in {-1, 1} }

\* flag bits and CIGAR: an unmapped record has no CIGAR or keeps a stale one
MappingStates ==
    { <<{4}, <<>> >>, <<{4}, <<<<0, 2>>>> >>,
      <<{}, <<<<0, 2>>>> >>, <<{}, <<<<4, 2>>>> >>, <<{}, <<<<0, 1>>, <<4, 1>>>> >> }

InsertSizes == {-window, -(window - 1), 0, window - 1, window, window + 1}

ClassifyMates(role, rnames, isize) ==
    { Rec("q1", {role} \cup ms[1] \cup rv, rn, isize, ms[2], tg,
          <<"A", "C">>, <<"!", "#">>)
      : ms \in MappingStates, rv \in {{}, {16}}, rn \in rnames, tg \in TagSets }

InitAtPair(r1, r2) ==
    /\ pc = "L27"
    /\ status = "running"
    /\ exc = "none"
    /\ read1 = r1
    /\ read2 = r2
    /\ total_reads = 2
    /\ consumed = <<r1, r2>>
    /\ yielded = <<>>
    /\ pair_count = 0
    /\ keep_count = 0
    /\ ambiguous_count = 0
    /\ outcome = "none"
    /\ fq1 = <<>>
    /\ fq2 = <<>>
    /\ logfile = <<>>
    /\ norm = None
    /\ output = "files"
    /\ closed = <<0, 0>>

InitClassify ==
    /\ mm \in MmArgs
    /\ stype \in STypes
    /\ \E isize \in InsertSizes :
         \E r1 \in ClassifyMates(64, {0}, isize) :
           \E r2 \in ClassifyMates(128, {0, 1}, -isize) : InitAtPair(r1, r2)

\* Reads for the orientation checks: every (seq, qual) of one length up to
\* MaxSeqLen, over the five bases and a symbol that is no key of code.
Bases == {"A", "T", "C", "G", "N", "X"}
Quals == {"!", "#"}
Reads == UNION { [1..k -> Bases] \X [1..k -> Quals] : k \in 1..MaxSeqLen }
FixedReads == { <<<<"A", "A", "C", "G">>, <<"!", "!", "#", "!">>>>,
                <<<<"T", "N">>, <<"#", "!">>>> }

\* a mapped mate; the two mates lie on different references, so the pair
\* is kept
OrientMate(role, rv, rn, sq) ==
    Rec("q1", {role} \cup rv, rn, 0, <<<<0, Len(sq[1])>>>>, Tag("NM", 0),
        sq[1], sq[2])

InitOrient ==
    /\ mm = <<"0">>
    /\ stype = "DNA"
    /\ \E a \in Reads, b \in FixedReads, swap \in BOOLEAN, rv1, rv2 \in {{}, {16}} :
         InitAtPair(OrientMate(64, rv1, 0, IF swap THEN b ELSE a),
                    OrientMate(128, rv2, 1, IF swap THEN a ELSE b))

InitPair == InitClassify \/ InitOrient

NextPair == YieldPair

PairSpec == InitPair /\ [][NextPair]_vars

-----------------------------------------------------------------------------
(* rev_comp on its own: a (seq, qual) is put through rev_comp up to twice *)

InitNorm ==
    /\ \E sq \in Reads :
         norm = [seq0 |-> sq[1], qual0 |-> sq[2], seq |-> sq[1], qual |-> sq[2],
                 calls |-> 0]
    /\ pc = "L42"
    /\ status = "running"
    /\ exc = "none"
    /\ read1 = None
    /\ read2 = None
    /\ total_reads = 0
    /\ consumed = <<>>
    /\ yielded = <<>>
    /\ pair_count = 0
    /\ keep_count = 0
    /\ ambiguous_count = 0
    /\ outcome = "none"
    /\ fq1 = <<>>
    /\ fq2 = <<>>
    /\ logfile = <<>>
    /\ mm = <<"0">>
    /\ stype = "DNA"
    /\ output = "files"
    /\ closed = <<0, 0>>

normFixed == <<pc, read1, read2, total_reads, consumed, logfile, mm, stype,
               output, closed>>

RevCompReturns ==
    /\ status = "running"
    /\ norm.calls < 2
    /\ ~rev_comp_raises(norm.seq)
    /\ norm' = [norm EXCEPT !.seq = rev_comp(norm.seq, norm.qual)[1],
                            !.qual = rev_comp(norm.seq, norm.qual)[2],
                            !.calls = @ + 1]
    /\ UNCHANGED <<status, exc>>
    /\ UNCHANGED normFixed
    /\ UNCHANGED evalVars

RevCompRaises ==
    /\ status = "running"
    /\ norm.calls < 2
    /\ rev_comp_raises(norm.seq)
    /\ status' = "raised"
    /\ exc' = "KeyError"
    /\ UNCHANGED norm
    /\ UNCHANGED normFixed
    /\ UNCHANGED evalVars

NextNorm == RevCompReturns \/ RevCompRaises

NormSpec == InitNorm /\ [][NextNorm]_vars

-----------------------------------------------------------------------------
(* Properties of the classifier *)

\* a step in which the generator yields a pair and the loop body runs on it
Yielded == pair_count' = pair_count + 1

\* the loop body has just run on (read1, read2) and returned normally
AfterPair == pc = "L35" /\ status = "running"

BothUnmapped == is_unmapped(read1) /\ is_unmapped(read2)
HalfMapped == is_unmapped(read1) # is_unmapped(read2)
BothMapped == ~is_unmapped(read1) /\ ~is_unmapped(read2)
LacksEditTags(r) == ~has_tag(r, "NM") /\ ~has_tag(r, "nM")

Kept(kind) ==
    /\ outcome' = kind
    /\ status' = "running"
    /\ fq1' = Append(fq1, fastq(read1))
    /\ fq2' = Append(fq2, fastq(read2))

\* C1: a pair whose two records both carry the unmapped flag is always
\* KeepUnmapped: both mates are written, kept_unmapped grows by one and
\* kept_ambiguous does not change, whatever the other fields, the
\* threshold and the sample type are.
C1_BothUnmappedKept ==
    [][(Yielded /\ BothUnmapped) =>
          /\ Kept("KeepUnmapped")
          /\ keep_count' = keep_count + 1
          /\ ambiguous_count' = ambiguous_count]_vars

C1_Witness ==
    /\ AfterPair
    /\ BothUnmapped
    /\ outcome = "KeepUnmapped"
    /\ keep_count = 1
    /\ Len(fq1) = 1
    /\ is_reverse(read1)
    /\ single_match(read1) /\ single_match(read2)
    /\ has_tag(read1, "NM") /\ has_tag(read2, "NM")
    /\ read1.rname = read2.rname
    /\ stype = "DNA"

\* C2: a pair with exactly one record unmapped is always KeepAmbiguous and
\* never Discard, whatever reference id, insert size, CIGAR and tags are.
C2_HalfMappedNeverDiscarded ==
    (AfterPair /\ HalfMapped) => outcome = "KeepAmbiguous"

\* C7: for DNA, a mapped pair on one reference whose alignments are
\* perfect is Discarded when |insert size| <= 499 and KeepAmbiguous when
\* |insert size| >= 500, for either sign of the insert size.
C7_WindowIsStrict ==
    (/\ AfterPair
     /\ stype = "DNA"
     /\ BothMapped
     /\ read1.rname = read2.rname
     /\ perfect_alignments(read1, read2, mm))
    => /\ Abs(read1.isize) <= 499 =>
            outcome = "Discard" /\ fq1 = <<>> /\ fq2 = <<>>
       /\ Abs(read1.isize) >= 500 =>
            outcome = "KeepAmbiguous" /\ ambiguous_count = 1 /\ Len(fq1) = 1

C7_Witness ==
    /\ AfterPair
    /\ stype = "DNA"
    /\ BothMapped
    /\ read1.rname = read2.rname
    /\ perfect_alignments(read1, read2, mm)
    /\ read1.isize = -500
    /\ outcome = "KeepAmbiguous"

\* C8 as stated: whenever a record of the pair carries neither NM nor nM,
\* the pair is KeepAmbiguous and nothing is raised.
C8_MissingTagsAmbiguous ==
    (pair_count = 1 /\ (LacksEditTags(read1) \/ LacksEditTags(read2)))
    => outcome = "KeepAmbiguous" /\ status = "running"

\* C8 amended: whenever a record of the pair carries neither NM nor nM,
\* the pair is kept and nothing is raised: KeepUnmapped when both records
\* are unmapped, KeepAmbiguous otherwise, never Discard.
C8_MissingTagsKept ==
    (pair_count = 1 /\ (LacksEditTags(read1) \/ LacksEditTags(read2)))
    => /\ status = "running"
       /\ outcome = IF BothUnmapped THEN "KeepUnmapped" ELSE "KeepAmbiguous"
       /\ fq1 = <<fastq(read1)>>
       /\ fq2 = <<fastq(read2)>>
       /\ keep_count + ambiguous_count = 1

C8_Witness ==
    /\ AfterPair
    /\ LacksEditTags(read2)
    /\ has_tag(read1, "NM") /\ read1.tags["NM"] = 0
    /\ BothMapped
    /\ single_match(read1) /\ single_match(read2)
    /\ read1.rname = read2.rname
    /\ read1.isize = 499
    /\ outcome = "KeepAmbiguous"
    /\ ambiguous_count = 1

-----------------------------------------------------------------------------
(* Properties of the pipeline *)

IsKept(p) == classify(p[1], p[2], mm, stype) # "Discard"
KeptPairs == SelectSeq(yielded, IsKept)

\* C3: between pairs and at the end the two destinations hold the same
\* number of 4-line records, and their i-th records are the first and the
\* second mate of the i-th non-discarded pair in the order the pairs were
\* yielded; a discarded pair leaves no record.
C3_MatesInStep ==
    exc # "KeyError" =>
        /\ Len(fq1) = Len(KeptPairs)
        /\ Len(fq2) = Len(KeptPairs)
        /\ \A i \in 1..Len(KeptPairs) :
              /\ fq1[i] = fastq(KeptPairs[i][1])
              /\ fq2[i] = fastq(KeptPairs[i][2])
              /\ Len(fq1[i]) = 4 /\ Len(fq2[i]) = 4

C3_Witness ==
    /\ status = "returned"
    /\ Len(yielded) = 2
    /\ Len(fq1) = 2 /\ Len(fq2) = 2
    /\ fq1[1][1] = <<"@", "q2">> /\ fq1[2][1] = <<"@", "q1">>
    /\ is_read1(yielded[1][1]) /\ is_read2(yielded[1][2])
    /\ fq1[1] # fq2[1]

\* read_bam stands at line 30 with two candidates of different names
MismatchedCandidates ==
    /\ status = "running"
    /\ pc = "L27"
    /\ ~Skip2Cond(read2)
    /\ read1.query_name # read2.query_name

\* C4: candidates with different query names end the run with ValueError:
\* the pair is not yielded, counted or written, no record is read after
\* it, what was written before stays, and nothing happens after the raise.
C4_MismatchIsFatal ==
    [][/\ MismatchedCandidates =>
            /\ status' = "raised"
            /\ exc' = "ValueError"
            /\ UNCHANGED <<yielded, pair_count, keep_count, ambiguous_count,
                           fq1, fq2, consumed, total_reads>>
       /\ status = "raised" => UNCHANGED vars]_vars

C4_Witness ==
    /\ status = "raised"
    /\ exc = "ValueError"
    /\ read1.query_name # read2.query_name
    /\ Len(yielded) = 1
    /\ Len(fq1) = 1 /\ Len(fq2) = 1
    /\ Len(consumed) = 4

\* the run was ended by bamiter running out of records
StreamEnded ==
    status # "running" /\ pc \in {"L18", "L23", "L25", "L28", "L35", "L38"}

\* C5: a stream that ends after a mate-1 candidate was chosen and before
\* its mate-2 was found ends the run with an error, never as a normal return.
C5_MidPairEndIsFatal ==
    (StreamEnded /\ pc \in {"L25", "L28"}) => status = "raised"

IsPrimary(r) == ~is_secondary(r) /\ 2048 \notin r.flag

\* the stream is primary mate-1, primary mate-2 of the same name, repeated
CompletePairs(s) ==
    /\ Len(s) % 2 = 0
    /\ \A k \in 1..(Len(s) \div 2) :
          /\ IsPrimary(s[2 * k - 1]) /\ is_read1(s[2 * k - 1])
          /\ IsPrimary(s[2 * k]) /\ is_read2(s[2 * k])
          /\ s[2 * k - 1].query_name = s[2 * k].query_name

\* C6: a stream made only of complete, name-matching pairs (the empty
\* stream too) ends in a normal return of evaluate with every pair counted.
C6_CompleteStreamReturns ==
    (StreamEnded /\ CompletePairs(consumed))
    => status = "returned" /\ pair_count = Len(consumed) \div 2

-----------------------------------------------------------------------------
(* Properties of the orientation *)

Complement(b) ==
    CASE b = "A" -> "T" [] b = "T" -> "A" [] b = "C" -> "G" [] b = "G" -> "C"
      [] b = "N" -> "N"

EmittedSeq(r) ==
    IF is_reverse(r)
    THEN [i \in 1..Len(r.seq) |-> Complement(r.seq[Len(r.seq) + 1 - i])]
    ELSE r.seq

EmittedQual(r) ==
    IF is_reverse(r)
    THEN [i \in 1..Len(r.qual) |-> r.qual[Len(r.qual) + 1 - i]]
    ELSE r.qual

\* C9: each mate of a kept pair is emitted unchanged when its reverse flag
\* is clear, and with the sequence complemented and reversed and the
\* quality reversed when it is set; lengths are kept, and a mate's record
\* depends on its own flag only.
C9_OrientationPerMate ==
    (AfterPair /\ outcome # "Discard" /\ pair_count = 1) =>
        /\ fq1 = << <<<<"@", read1.query_name>>, EmittedSeq(read1), "+",
                      EmittedQual(read1)>> >>
        /\ fq2 = << <<<<"@", read2.query_name>>, EmittedSeq(read2), "+",
                      EmittedQual(read2)>> >>
        /\ Len(fq1[1][2]) = Len(read1.seq) /\ Len(fq1[1][4]) = Len(read1.qual)
        /\ Len(fq2[1][2]) = Len(read2.seq) /\ Len(fq2[1][4]) = Len(read2.qual)

C9_Witness ==
    /\ AfterPair
    /\ is_reverse(read1) /\ ~is_reverse(read2)
    /\ read1.seq = <<"A", "A", "C", "G">> /\ read1.qual = <<"!", "!", "#", "!">>
    /\ fq1[1][2] = <<"C", "G", "T", "T">> /\ fq1[1][4] = <<"!", "#", "!", "!">>
    /\ read2.seq = <<"C", "X">>
    /\ fq2[1][2] = <<"C", "X">>

\* C10: rev_comp applied twice to a sequence over A, T, C, G, N and a
\* quality of the same length gives back both.
C10_RevCompInvolution ==
    (norm # None /\ norm.calls = 2) =>
        norm.seq = norm.seq0 /\ norm.qual = norm.qual0

C10_Witness ==
    /\ norm # None
    /\ norm.calls = 2
    /\ norm.seq0 = <<"C", "A">> /\ norm.qual0 = <<"!", "#">>
    /\ norm.seq = <<"C", "A">> /\ norm.qual = <<"!", "#">>

-----------------------------------------------------------------------------
(* Properties of the run as a whole *)

\* C11: in file-output mode a run that completes normally has closed each
\* of the two destinations exactly once when it ends (and, no write
\* following a close, holds what evaluate wrote).
C11_FilesClosedOnce ==
    (status = "exited" /\ exc = "none" /\ output = "files")
    => closed = <<1, 1>>

\* C12: a run ended by an exception has written no partial pair: the two
\* destinations hold the same number of records.
C12_NoPartialPairOnAbort ==
    status = "raised" => Len(fq1) = Len(fq2)

-----------------------------------------------------------------------------
(* Properties of the assembler *)

\* C13: every pair read_bam yields has one query name, no secondary and no
\* supplementary record, a mate-1 first and a mate-2 second.
C13_YieldedPairsArePrimaryMates ==
    \A i \in 1..Len(yielded) :
        /\ yielded[i][1].query_name = yielded[i][2].query_name
        /\ IsPrimary(yielded[i][1]) /\ IsPrimary(yielded[i][2])
        /\ is_read1(yielded[i][1])
        /\ is_read2(yielded[i][2])

Primaries(s) == SelectSeq(s, IsPrimary)

PairsOf(s) == [k \in 1..(Len(s) \div 2) |-> <<s[2 * k - 1], s[2 * k]>>]

\* the primaries read so far can still grow into complete pairs
PairedSoFar(s) ==
    \/ CompletePairs(s)
    \/ /\ Len(s) % 2 = 1
       /\ CompletePairs(SubSeq(s, 1, Len(s) - 1))
       /\ is_read1(s[Len(s)])

\* C14: when the primary records of the stream are mate-1, mate-2 pairs of
\* one name each, with secondary and supplementary records anywhere between
\* them, read_bam never raises for a name mismatch and, once the stream is
\* exhausted, has yielded exactly the primary pairs in stream order.
C14_PrimaryPairsAssembled ==
    /\ PairedSoFar(Primaries(consumed)) => exc # "ValueError"
    /\ (StreamEnded /\ CompletePairs(Primaries(consumed)))
          => yielded = PairsOf(Primaries(consumed))

-----------------------------------------------------------------------------
(* Properties of perfect_alignments, seen through the branch taken *)

\* the pair passes line 123, both_mapped and mated, so that the branch
\* taken shows the value of perfect_alignments
ReachesPerfectTest ==
    /\ AfterPair
    /\ ~BothUnmapped
    /\ read1.rname = read2.rname
    /\ (stype = "DNA" => Abs(read1.isize) < 500)

FullMatches ==
    /\ Len(read1.cigar) = 1 /\ read1.cigar[1][1] = 0
    /\ Len(read2.cigar) = 1 /\ read2.cigar[1][1] = 0

HasEditTag(r) == has_tag(r, "NM") \/ has_tag(r, "nM")
FirstTag(r) == IF has_tag(r, "NM") THEN r.tags["NM"] ELSE r.tags["nM"]

\* the one tag both records are read by: NM when both carry it, else nM
\* when both carry it
SharedTag ==
    IF has_tag(read1, "NM") /\ has_tag(read2, "NM") THEN "NM"
    ELSE IF has_tag(read1, "nM") /\ has_tag(read2, "nM") THEN "nM"
    ELSE "none"

\* C15 as stated: each record's edit distance is read from the first of NM,
\* nM present on that record; when each record has one of them the pair is
\* perfect exactly when both CIGARs are a single match and both values are
\* within the threshold.
C15_FirstTagPerRecord ==
    (ReachesPerfectTest /\ HasEditTag(read1) /\ HasEditTag(read2))
    => (outcome = "Discard" <=>
          /\ FullMatches
          /\ FirstTag(read1) <= int(mm)
          /\ FirstTag(read2) <= int(mm))

\* C15 amended: both records are read by the same tag, NM when both carry
\* NM, else nM when both carry nM; the pair is perfect exactly when such a
\* tag exists, both CIGARs are a single match and both values of that tag
\* are within the threshold.
C15_OneTagForBoth ==
    ReachesPerfectTest
    => (outcome = "Discard" <=>
          /\ SharedTag # "none"
          /\ FullMatches
          /\ read1.tags[SharedTag] <= int(mm)
          /\ read2.tags[SharedTag] <= int(mm))

C15_Witness ==
    /\ ReachesPerfectTest
    /\ BothMapped
    /\ FullMatches
    /\ mm = <<"1">>
    /\ has_tag(read1, "NM") /\ read1.tags["NM"] = 2
    /\ has_tag(read1, "nM") /\ read1.tags["nM"] = 1
    /\ ~has_tag(read2, "NM")
    /\ has_tag(read2, "nM") /\ read2.tags["nM"] = 1
    /\ outcome = "Discard"

\* C16: for a mapped, mated pair with single-match CIGARs the comparison
\* with the threshold m is inclusive: Discard when both edit distances are
\* <= m, KeepAmbiguous when either is >= m + 1.
C16_ThresholdInclusive ==
    (ReachesPerfectTest /\ BothMapped /\ FullMatches /\ SharedTag # "none")
    => LET d1 == read1.tags[SharedTag]
           d2 == read2.tags[SharedTag]
           m == IF mm = <<"0">> THEN 0 ELSE 1
       IN  /\ (d1 <= m /\ d2 <= m) =>
                 outcome = "Discard" /\ fq1 = <<>> /\ fq2 = <<>>
           /\ (d1 >= m + 1 \/ d2 >= m + 1) =>
                 outcome = "KeepAmbiguous" /\ ambiguous_count = 1 /\ Len(fq1) = 1

C16_Witness ==
    /\ ReachesPerfectTest
    /\ BothMapped
    /\ FullMatches
    /\ mm = <<"1">>
    /\ has_tag(read1, "NM") /\ read1.tags["NM"] = 1
    /\ has_tag(read2, "NM") /\ read2.tags["NM"] = 1
    /\ outcome = "Discard"

-----------------------------------------------------------------------------
(* The counters of evaluate and of read_bam *)

\* the pairs of the run so far that took the pass branch of line 131
Discarded ==
    Cardinality({i \in 1..Len(yielded) :
        classify(yielded[i][1], yielded[i][2], mm, stype) = "Discard"})

\* evaluate is not inside the body of its loop: every state but the one
\* left by a KeyError raised while a pair was being written
BetweenPairs == exc # "KeyError"

TalliesBalance ==
    BetweenPairs =>
        /\ pair_count = keep_count + ambiguous_count + Discarded
        /\ Len(fq1) = keep_count + ambiguous_count
        /\ Len(fq2) = keep_count + ambiguous_count

OnePairOneTally ==
    /\ pair_count' >= pair_count
    /\ keep_count' >= keep_count
    /\ ambiguous_count' >= ambiguous_count
    /\ Discarded' >= Discarded
    /\ (Yielded /\ BetweenPairs') =>
          \/ /\ keep_count' = keep_count + 1
             /\ ambiguous_count' = ambiguous_count
             /\ Discarded' = Discarded
          \/ /\ keep_count' = keep_count
             /\ ambiguous_count' = ambiguous_count + 1
             /\ Discarded' = Discarded
          \/ /\ keep_count' = keep_count
             /\ ambiguous_count' = ambiguous_count
             /\ Discarded' = Discarded + 1

\* C17: between two pairs and at the end of evaluate, pair_count is the sum
\* of keep_count, ambiguous_count and the number of discarded pairs, each
\* destination holds keep_count + ambiguous_count records, each pair moves
\* exactly one of the three tallies by exactly 1, and no counter decreases.
C17_TalliesPartitionPairs == []TalliesBalance /\ [][OnePairOneTally]_vars

C17_Witness ==
    /\ status = "returned"
    /\ pair_count = 2
    /\ keep_count + ambiguous_count = 1
    /\ Discarded = 1
    /\ Len(fq1) = 1
    /\ Len(fq2) = 1

\* C18: total_reads is the number of records pulled so far, each counted
\* once whether skipped or paired, a pull that meets the end of the stream
\* counts nothing, and total_reads >= 2 * (pairs yielded).
C18_TotalReadsCountsPulls ==
    /\ total_reads = Len(consumed)
    /\ total_reads >= 2 * Len(yielded)

C18_Witness ==
    /\ status = "returned"
    /\ total_reads = 3
    /\ Len(yielded) = 1
    /\ ~IsPrimary(consumed[1])
    /\ yielded[1] = <<consumed[2], consumed[3]>>

====
